---- MODULE Spec2Model ----
(***************************************************************************)
(* Model of packages/data-controls/src/index.js (the API_FETCH control,    *)
(* the registration guard and batchProcessor) and of the block variation   *)
(* transforms component (onSelectVariation).                               *)
(*                                                                         *)
(* Strings the code searches in (request paths) are sequences of chunks of *)
(* characters, so that indexOf is a real substring search.  The store      *)
(* 'core/batch-processing' is the log of the calls made on it; what the    *)
(* store holds is a fold over that log.                                    *)
(***************************************************************************)
EXTENDS Integers, Sequences, FiniteSets, TLC

VARIABLES
    request,            \* argument of the latest API_FETCH control run
    dispatched,         \* number of API_FETCH control runs so far
    fetches,            \* triggerFetch( request ) calls made by the control
    registryCalls,      \* registry.dispatch( 'core/batch-processing' ) calls, in order
    returned,           \* what the latest control run returned
    requests,           \* batchProcessor: its first argument
    transaction,        \* batchProcessor: its second argument
    pc,                 \* batchProcessor: position in the async function
    networkCalls,       \* batchProcessor: triggerFetch calls it made
    fetchResult,        \* batchProcessor: how the awaited triggerFetch settled
    outcome,            \* batchProcessor: how its promise settled
    selectedBlockClientId,   \* variation transforms: the component's prop
    variations,              \* variation transforms: result of useSelect
    variationsSelectValue,   \* variation transforms: useState value
    updates,                 \* variation transforms: updateBlockAttributes calls
    chosen                   \* variation transforms: onChange arguments so far

controlVars == <<request, dispatched, fetches, registryCalls, returned>>
batchVars == <<requests, transaction, pc, networkCalls, fetchResult, outcome>>
variationVars ==
    <<selectedBlockClientId, variations, variationsSelectValue, updates, chosen>>
vars == <<controlVars, batchVars, variationVars>>

(***************************************************************************)
(* Bounds of the model.                                                    *)
(***************************************************************************)
MaxDispatches == 2
MaxBatch == 2
MaxResponses == 3
MaxVariations == 2
MaxSelects == 2

(***************************************************************************)
(* Values.                                                                 *)
(***************************************************************************)
Undefined == "<undefined>"
\* the control's argument before its first run: a descriptor with nothing set
NoRequest ==
    [path |-> <<>>, method |-> Undefined, batchAs |-> Undefined,
     data |-> Undefined, headers |-> Undefined]

\* `! x` of a string-or-undefined value x
Falsy(x) == x = Undefined \/ x = ""

BatchMethods == {"POST", "PUT", "PATCH", "DELETE"}

TemplatePartsNeedle == <<"/v2", "/template-parts">>

\* hay.indexOf( needle ): the first (0-based) position at which needle occurs
\* in hay, or -1
RECURSIVE IndexOfFrom(_, _, _)
IndexOfFrom(hay, needle, i) ==
    IF i + Len(needle) - 1 > Len(hay) THEN -1
    ELSE IF SubSeq(hay, i, i + Len(needle) - 1) = needle THEN i - 1
    ELSE IndexOfFrom(hay, needle, i + 1)

IndexOf(hay, needle) == IndexOfFrom(hay, needle, 1)

endpointSupportsBatch(path) == IndexOf(path, TemplatePartsNeedle) # -1

(***************************************************************************)
(* Request Descriptors handed to the API_FETCH control.                    *)
(***************************************************************************)
PathPosts == <<"/wp", "/v2", "/posts">>
PathReversed == <<"/template-parts", "/v2">>
PathExact == <<"/v2", "/template-parts">>
PathEmbedded == <<"/wp", "/v2", "/template-parts", "/7">>
Paths == {PathPosts, PathReversed, PathExact, PathEmbedded}

Methods == {Undefined, "GET", "POST", "PUT", "PATCH", "DELETE"}
BatchAsValues == {Undefined, "", "g1", "g2"}

ControlRequests ==
    [path : Paths, method : Methods, batchAs : BatchAsValues,
     data : {"d1"}, headers : {Undefined}]

(***************************************************************************)
(* The 'core/batch-processing' store, seen from this package.              *)
(***************************************************************************)
\* registry.dispatch( 'core/batch-processing' ).<op>( ...args )
RegistryDispatch(calls, op, args) == Append(calls, [op |-> op, args |-> args])

\* the processor the store holds for a queue: the callback of the latest
\* registerProcessor call for it
RECURSIVE Processor(_, _)
Processor(calls, queue) ==
    IF calls = <<>> THEN Undefined
    ELSE LET last == calls[Len(calls)]
         IN  IF last.op = "registerProcessor" /\ last.args[1] = queue
             THEN last.args[2]
             ELSE Processor(SubSeq(calls, 1, Len(calls) - 1), queue)

(***************************************************************************)
(* Registration guard.                                                     *)
(***************************************************************************)
\* const registered = false;
registered == FALSE

registerBatchProcessor(calls) ==
    IF registered THEN calls
    ELSE RegistryDispatch(calls, "registerProcessor",
                          <<"API_FETCH", "batchProcessor">>)

(***************************************************************************)
(* controls.API_FETCH: one run of the control on `req`, from the effects   *)
(* so far (st.fetches, st.calls) to the effects after it.                  *)
(***************************************************************************)
ApiFetchIgnoringBatchAs(st, req) ==
    IF ~(req.method \in BatchMethods) \/ ~endpointSupportsBatch(req.path)
    THEN [fetches |-> Append(st.fetches, req), calls |-> st.calls,
          returned |-> "triggerFetch"]
    ELSE [fetches |-> st.fetches,
          calls |-> RegistryDispatch(registerBatchProcessor(st.calls),
                        "enqueueItemAndAutocommit", <<"API_FETCH", "abc", req>>),
          returned |-> "enqueueItemAndAutocommit"]

ApiFetchGroupFromBatchAs(st, req) ==
    IF ~(req.method \in BatchMethods) \/ Falsy(req.batchAs)
           \/ ~endpointSupportsBatch(req.path)
    THEN [fetches |-> Append(st.fetches, req), calls |-> st.calls,
          returned |-> "triggerFetch"]
    ELSE [fetches |-> st.fetches,
          calls |-> RegistryDispatch(registerBatchProcessor(st.calls),
                        "enqueueItemAndAutocommit",
                        <<"API_FETCH", req.batchAs, req>>),
          returned |-> "enqueueItemAndAutocommit"]

ApiFetchEnqueueFirst(st, req) ==
    IF ~(req.method \in BatchMethods) \/ Falsy(req.batchAs)
           \/ ~endpointSupportsBatch(req.path)
    THEN [fetches |-> Append(st.fetches, req), calls |-> st.calls,
          returned |-> "triggerFetch"]
    ELSE [fetches |-> st.fetches,
          calls |-> registerBatchProcessor(
                        RegistryDispatch(st.calls, "enqueueItemAndAutocommit",
                                         <<"API_FETCH", "abc", req>>)),
          returned |-> "enqueueItemAndAutocommit"]

API_FETCH(st, req) ==
    IF ~(req.method \in BatchMethods) \/ Falsy(req.batchAs)
           \/ ~endpointSupportsBatch(req.path)
    THEN [fetches |-> Append(st.fetches, req), calls |-> st.calls,
          returned |-> "triggerFetch"]
    ELSE [fetches |-> st.fetches,
          calls |-> RegistryDispatch(registerBatchProcessor(st.calls),
                        "enqueueItemAndAutocommit", <<"API_FETCH", "abc", req>>),
          returned |-> "enqueueItemAndAutocommit"]

\* an action routine yields apiFetch( req ); the runner runs the control
ControlRun ==
    /\ dispatched < MaxDispatches
    /\ \E req \in ControlRequests :
          LET after == API_FETCH([fetches |-> fetches, calls |-> registryCalls], req)
          IN  /\ request' = req
              /\ fetches' = after.fetches
              /\ registryCalls' = after.calls
              /\ returned' = after.returned
    /\ dispatched' = dispatched + 1
    /\ UNCHANGED <<batchVars, variationVars>>

(***************************************************************************)
(* batchProcessor( requests, transaction ).                                *)
(***************************************************************************)
TRANSACTION_ERROR == "ERROR"
TransactionStates == {"IN_PROGRESS", TRANSACTION_ERROR}

BatchPath == <<"/__experimental", "/batch">>

BatchDescriptors ==
    [path : {PathExact, PathEmbedded}, method : {"POST", "DELETE"},
     data : {"d1", "d2"}, headers : {Undefined, "h1"}, batchAs : {"g1"}]

RECURSIVE SeqsUpTo(_, _)
SeqsUpTo(S, n) ==
    IF n = 0 THEN {<<>>}
    ELSE LET shorter == SeqsUpTo(S, n - 1)
         IN  shorter \cup {Append(q, x) : q \in shorter, x \in S}

\* what the batch endpoint can answer
ResponseItems == [body : {"b1", "b2"}, status : {207}, headers : {Undefined}]
BatchResponses == [failed : BOOLEAN, responses : SeqsUpTo(ResponseItems, MaxResponses)]
NetworkErrors == {"fetch_error"}

Pending == [settled |-> "pending"]

\* requests.map( ( options ) => ( { path, body: options.data, method, headers } ) )
WireRequestBodyFromBody(options) ==
    [path |-> options.path, body |-> Undefined, method |-> options.method,
     headers |-> options.headers]

WireRequest(options) ==
    [path |-> options.path, body |-> options.data, method |-> options.method,
     headers |-> options.headers]

\* the argument of the triggerFetch call
BatchFetchOptions(reqs) ==
    [path |-> BatchPath, method |-> "POST",
     data |-> [validation |-> "require-all-validate",
               requests |-> [i \in 1..Len(reqs) |-> WireRequest(reqs[i])]]]

\* response.responses.map( ( { body } ) => body )
BodiesReversed(responses) ==
    [i \in 1..Len(responses) |-> responses[Len(responses) + 1 - i].body]

BodiesWithoutFirst(responses) ==
    [i \in 1..(Len(responses) - 1) |-> responses[i + 1].body]

Bodies(responses) == [i \in 1..Len(responses) |-> responses[i].body]

\* the function up to its await: either it has thrown or it awaits one fetch
BatchProcessorStartUnchecked(reqs, tx) ==
    [pc |-> "await", calls |-> <<BatchFetchOptions(reqs)>>, outcome |-> Pending]

BatchProcessorStart(reqs, tx) ==
    IF tx.state = TRANSACTION_ERROR
    THEN [pc |-> "done", calls |-> <<>>,
          outcome |-> [settled |-> "rejected", kind |-> "error",
                       value |-> [code |-> "transaction_failed",
                                  data |-> [status |-> 500],
                                  message |-> "Transaction failed."]]]
    ELSE [pc |-> "await", calls |-> <<BatchFetchOptions(reqs)>>,
          outcome |-> Pending]

\* the function after its await, on the response the fetch resolved with
BatchProcessorResumeIgnoringFailed(resp) ==
    [settled |-> "resolved", kind |-> "bodies", value |-> Bodies(resp.responses)]

BatchProcessorResume(resp) ==
    IF resp.failed
    THEN [settled |-> "rejected", kind |-> "bodies", value |-> Bodies(resp.responses)]
    ELSE [settled |-> "resolved", kind |-> "bodies", value |-> Bodies(resp.responses)]

\* the registry invokes the processor on the items of a transaction
Invoke ==
    /\ pc = "idle"
    /\ LET started == BatchProcessorStart(requests, transaction)
       IN  /\ pc' = started.pc
           /\ networkCalls' = networkCalls \o started.calls
           /\ outcome' = started.outcome
    /\ UNCHANGED <<requests, transaction, fetchResult, controlVars, variationVars>>

\* the awaited triggerFetch resolves
FetchResolves ==
    /\ pc = "await"
    /\ \E resp \in BatchResponses :
          /\ fetchResult' = [settled |-> "resolved", value |-> resp]
          /\ outcome' = BatchProcessorResume(resp)
    /\ pc' = "done"
    /\ UNCHANGED <<requests, transaction, networkCalls, controlVars, variationVars>>

\* the awaited triggerFetch rejects: the await throws out of the function
FetchRejects ==
    /\ pc = "await"
    /\ \E err \in NetworkErrors :
          /\ fetchResult' = [settled |-> "rejected", value |-> err]
          /\ outcome' = [settled |-> "rejected", kind |-> "network", value |-> err]
    /\ pc' = "done"
    /\ UNCHANGED <<requests, transaction, networkCalls, controlVars, variationVars>>

(***************************************************************************)
(* __experimentalBlockVariationTransforms.                                 *)
(***************************************************************************)
VariationNames == {"v1", "v2"}
Variations ==
    [name : VariationNames, title : {"T"}, attributes : [align : {"wide", "full"}]]
ClientIds == {"c1", "c2"}

\* [ { value: '', ... }, ...variations.map( ( variation ) => ( { value: variation.name, ... } ) ) ]
SelectOptions(vs) ==
    <<[value |-> "", label |-> "Select a variation"]>>
        \o [i \in 1..Len(vs) |-> [value |-> vs[i].name, label |-> vs[i].title]]

OptionValues(vs) == {SelectOptions(vs)[i].value : i \in 1..Len(SelectOptions(vs))}

\* variations.find( ( { name } ) => name === variationName )
RECURSIVE FindFrom(_, _, _)
FindFrom(vs, variationName, i) ==
    IF i > Len(vs) THEN Undefined
    ELSE IF vs[i].name = variationName THEN vs[i]
    ELSE FindFrom(vs, variationName, i + 1)

RECURSIVE FindLastFrom(_, _, _)
FindLastFrom(vs, variationName, i) ==
    IF i < 1 THEN Undefined
    ELSE IF vs[i].name = variationName THEN vs[i]
    ELSE FindLastFrom(vs, variationName, i - 1)

FindLast(vs, variationName) == FindLastFrom(vs, variationName, Len(vs))

Find(vs, variationName) == FindFrom(vs, variationName, 1)

\* { ...object }
Spread(object) == [k \in DOMAIN object |-> object[k]]

\* the handler, from the state it closes over to the state after it
onSelectVariation(st, variationName) ==
    [value |-> variationName,
     updates |-> IF Falsy(variationName) THEN st.updates
                 ELSE Append(st.updates,
                          <<st.clientId,
                            Spread(Find(st.variations, variationName).attributes)>>)]

\* the user picks an option of the rendered SelectControl
SelectVariation ==
    /\ Len(variations) # 0
    /\ Len(chosen) < MaxSelects
    /\ \E variationName \in OptionValues(variations) :
          LET after == onSelectVariation(
                           [updates |-> updates, variations |-> variations,
                            clientId |-> selectedBlockClientId], variationName)
          IN  /\ variationsSelectValue' = after.value
              /\ updates' = after.updates
              /\ chosen' = Append(chosen, variationName)
    /\ UNCHANGED <<selectedBlockClientId, variations, controlVars, batchVars>>

(***************************************************************************)
(* Specifications.                                                         *)
(***************************************************************************)
ControlIdle ==
    /\ request = NoRequest
    /\ dispatched = 0
    /\ fetches = <<>>
    /\ registryCalls = <<>>
    /\ returned = Undefined

BatchIdle ==
    /\ requests = <<>>
    /\ transaction = [state |-> "IN_PROGRESS"]
    /\ pc = "off"
    /\ networkCalls = <<>>
    /\ fetchResult = Pending
    /\ outcome = Pending

VariationIdle ==
    /\ selectedBlockClientId = "c1"
    /\ variations = <<>>
    /\ variationsSelectValue = ""
    /\ updates = <<>>
    /\ chosen = <<>>

\* the API_FETCH control
Init == ControlIdle /\ BatchIdle /\ VariationIdle
Next == ControlRun
Spec == Init /\ [][Next]_vars

\* batchProcessor on the items and the transaction the registry hands it
InitBatch ==
    /\ ControlIdle
    /\ VariationIdle
    /\ requests \in SeqsUpTo(BatchDescriptors, MaxBatch) \ {<<>>}
    /\ transaction \in [state : TransactionStates]
    /\ pc = "idle"
    /\ networkCalls = <<>>
    /\ fetchResult = Pending
    /\ outcome = Pending
NextBatch == Invoke \/ FetchResolves \/ FetchRejects
SpecBatch == InitBatch /\ [][NextBatch]_vars

\* the variation transforms component on a selected block
InitVariation ==
    /\ ControlIdle
    /\ BatchIdle
    /\ selectedBlockClientId \in ClientIds
    /\ variations \in SeqsUpTo(Variations, MaxVariations)
    /\ variationsSelectValue = ""
    /\ updates = <<>>
    /\ chosen = <<>>
NextVariation == SelectVariation
SpecVariation == InitVariation /\ [][NextVariation]_vars

(***************************************************************************)
(* Properties of the API_FETCH control (specification Spec).               *)
(***************************************************************************)
\* the enqueueItemAndAutocommit calls made so far
Enqueued(calls) ==
    SelectSeq(calls, LAMBDA c : c.op = "enqueueItemAndAutocommit")

\* the registerProcessor calls made so far
Registrations(calls) ==
    SelectSeq(calls, LAMBDA c : c.op = "registerProcessor")

\* `needle` occurs in `hay`
Contains(hay, needle) ==
    \E i \in 1..Len(hay) :
        /\ i + Len(needle) - 1 <= Len(hay)
        /\ SubSeq(hay, i, i + Len(needle) - 1) = needle

\* at least one routing condition fails
RoutingConditionFails(r) ==
    \/ r.method \notin {"POST", "PUT", "PATCH", "DELETE"}
    \/ r.batchAs \in {Undefined, ""}
    \/ ~Contains(r.path, <<"/v2", "/template-parts">>)

\* a step that is one run of the control
IsControlRun == dispatched' = dispatched + 1

\* C1: over any sequence of batch-eligible dispatches the registry receives
\* exactly one registerProcessor( 'API_FETCH', batchProcessor ) call: one once
\* an eligible request has been dispatched, and never a second one.
C1_RegisteredExactlyOnce ==
    IF Enqueued(registryCalls) = <<>>
    THEN Registrations(registryCalls) = <<>>
    ELSE Registrations(registryCalls) =
             <<[op |-> "registerProcessor", args |-> <<"API_FETCH", "batchProcessor">>]>>

\* C2: a run of the control on a request for which a routing condition fails
\* makes exactly one direct fetch, of that request, and no call on the registry.
C2_PassThrough ==
    [][(IsControlRun /\ RoutingConditionFails(request'))
          => /\ fetches' = Append(fetches, request')
             /\ registryCalls' = registryCalls
             /\ returned' = "triggerFetch"]_vars

C2_Witness ==
    /\ dispatched = 2
    /\ request.method = "POST" /\ request.batchAs = "g1" /\ request.path = PathReversed
    /\ Len(fetches) = 2
    /\ fetches[1].method = "GET" /\ fetches[1].path = PathExact
    /\ fetches[2] = request

\* C3: a run of the control on a request that meets every routing condition
\* makes no direct fetch and enqueues that request exactly once, under effect
\* type 'API_FETCH' and group 'abc', whatever its batchAs.
C3_BatchRoute ==
    [][(IsControlRun /\ ~RoutingConditionFails(request'))
          => /\ fetches' = fetches
             /\ Enqueued(registryCalls') =
                    Append(Enqueued(registryCalls),
                           [op |-> "enqueueItemAndAutocommit",
                            args |-> <<"API_FETCH", "abc", request'>>])
             /\ returned' = "enqueueItemAndAutocommit"]_vars

C3_Witness ==
    /\ Len(Enqueued(registryCalls)) = 2
    /\ Enqueued(registryCalls)[1].args[3].batchAs = "g1"
    /\ Enqueued(registryCalls)[2].args[3].batchAs = "g2"
    /\ Enqueued(registryCalls)[2].args[3].path = PathEmbedded
    /\ Enqueued(registryCalls)[1].args[2] = Enqueued(registryCalls)[2].args[2]
    /\ fetches = <<>>

\* C9: whenever an item is enqueued under 'API_FETCH', the calls made on the
\* registry before that enqueue have already left batchProcessor as the
\* processor of 'API_FETCH'.
C9_RegisteredBeforeEnqueue ==
    \A i \in 1..Len(registryCalls) :
        (registryCalls[i].op = "enqueueItemAndAutocommit"
             /\ registryCalls[i].args[1] = "API_FETCH")
            => Processor(SubSeq(registryCalls, 1, i - 1), "API_FETCH") = "batchProcessor"

C9_Witness ==
    /\ Len(Enqueued(registryCalls)) = 2
    /\ Len(fetches) = 0
    /\ Processor(registryCalls, "API_FETCH") = "batchProcessor"

(***************************************************************************)
(* Properties of batchProcessor (specification SpecBatch).                 *)
(***************************************************************************)
FetchResolved == pc = "done" /\ fetchResult.settled = "resolved"

\* C4: on a transaction in error state batchProcessor rejects with
\* { code: 'transaction_failed', data: { status: 500 }, message: 'Transaction
\* failed.' } and makes no network call.
C4_TransactionFailed ==
    transaction.state = "ERROR"
        => /\ networkCalls = <<>>
           /\ pc \in {"idle", "done"}
           /\ pc = "done"
                 => /\ outcome.settled = "rejected"
                    /\ outcome.kind = "error"
                    /\ outcome.value.code = "transaction_failed"
                    /\ outcome.value.data.status = 500
                    /\ outcome.value.message = "Transaction failed."

C4_Witness ==
    /\ transaction.state = "ERROR"
    /\ pc = "done"
    /\ Len(requests) = 2
    /\ outcome.settled = "rejected"

\* C5: on a response with failed = false and one item per request
\* batchProcessor resolves to the items' bodies, the i-th result being the
\* body of the i-th item.
C5_SuccessBodies ==
    (FetchResolved /\ ~fetchResult.value.failed
         /\ Len(fetchResult.value.responses) = Len(requests))
        => /\ outcome.settled = "resolved"
           /\ Len(outcome.value) = Len(requests)
           /\ \A i \in 1..Len(requests) :
                  outcome.value[i] = fetchResult.value.responses[i].body

C5_Witness ==
    /\ FetchResolved
    /\ ~fetchResult.value.failed
    /\ Len(requests) = 2
    /\ Len(fetchResult.value.responses) = 2
    /\ outcome.settled = "resolved"
    /\ outcome.value = <<"b1", "b2">>

\* C6: on a response with failed = true batchProcessor rejects, never
\* resolves, and the rejection payload is the items' bodies in their order.
C6_FailureBodies ==
    (FetchResolved /\ fetchResult.value.failed)
        => /\ outcome.settled = "rejected"
           /\ outcome.kind = "bodies"
           /\ Len(outcome.value) = Len(fetchResult.value.responses)
           /\ \A i \in 1..Len(fetchResult.value.responses) :
                  outcome.value[i] = fetchResult.value.responses[i].body

C6_Witness ==
    /\ FetchResolved
    /\ fetchResult.value.failed
    /\ Len(requests) = 2
    /\ Len(fetchResult.value.responses) = 2
    /\ outcome.settled = "rejected"
    /\ outcome.value = <<"b2", "b1">>

\* the Request Descriptor fields a wire entry gives back
FromWire(entry) == [path |-> entry.path, method |-> entry.method, data |-> entry.body]

\* C7: on a transaction not in error state one invocation makes exactly one
\* network call, however it ends: a POST to /__experimental/batch with
\* validation 'require-all-validate' whose i-th entry is { path, body: data,
\* method, headers } of the i-th descriptor, from which path, method and data
\* are recovered.
C7_WireRequest ==
    (transaction.state # "ERROR" /\ pc \in {"await", "done"})
        => /\ Len(networkCalls) = 1
           /\ networkCalls[1].path = <<"/__experimental", "/batch">>
           /\ networkCalls[1].method = "POST"
           /\ networkCalls[1].data.validation = "require-all-validate"
           /\ Len(networkCalls[1].data.requests) = Len(requests)
           /\ \A i \in 1..Len(requests) :
                  LET entry == networkCalls[1].data.requests[i]
                  IN  /\ DOMAIN entry = {"path", "body", "method", "headers"}
                      /\ entry.headers = requests[i].headers
                      /\ FromWire(entry) =
                             [path |-> requests[i].path, method |-> requests[i].method,
                              data |-> requests[i].data]

C7_Witness ==
    /\ pc = "done"
    /\ fetchResult.settled = "rejected"
    /\ Len(networkCalls) = 1
    /\ Len(requests) = 2
    /\ requests[1].data # requests[2].data
    /\ requests[1].method # requests[2].method
    /\ requests[1].path # requests[2].path

\* C8 as stated: whatever the batch endpoint answers, the payload has as
\* many entries as there are input requests.
C8_LengthEqualsInput ==
    FetchResolved => Len(outcome.value) = Len(requests)

\* C8 amended: the payload has as many entries as the response has items, so
\* as many as there are input requests when the response holds one item per
\* request.
C8_LengthEqualsResponses ==
    FetchResolved
        => /\ outcome.kind = "bodies"
           /\ Len(outcome.value) = Len(fetchResult.value.responses)
           /\ Len(fetchResult.value.responses) = Len(requests)
                  => Len(outcome.value) = Len(requests)

C8_Witness ==
    /\ FetchResolved
    /\ Len(requests) = 2
    /\ Len(fetchResult.value.responses) = 3
    /\ Len(outcome.value) = 3

(***************************************************************************)
(* Properties of onSelectVariation (specification SpecVariation).          *)
(***************************************************************************)
\* the position of the first variation named `name`
FirstNamed(vs, name) ==
    CHOOSE i \in 1..Len(vs) :
        vs[i].name = name /\ \A j \in 1..(i - 1) : vs[j].name # name

\* C10: the select value is always the last chosen value; choosing the empty
\* placeholder dispatches no updateBlockAttributes; choosing a variation name
\* dispatches exactly one, to selectedBlockClientId, with the attributes of
\* the first variation of that name.
C10_SelectVariation ==
    [][(chosen' # chosen)
          => LET picked == chosen'[Len(chosen')]
             IN  /\ variationsSelectValue' = picked
                 /\ picked = "" => updates' = updates
                 /\ picked # ""
                        => updates' =
                               Append(updates,
                                   <<selectedBlockClientId,
                                     variations[FirstNamed(variations, picked)].attributes>>)]_vars

C10_Witness ==
    /\ Len(variations) = 2
    /\ variations[1].name = "v2" /\ variations[2].name = "v2"
    /\ variations[1].attributes.align = "full"
    /\ variations[2].attributes.align = "wide"
    /\ chosen = <<"v2", "">>
    /\ variationsSelectValue = ""
    /\ updates = <<<<selectedBlockClientId, [align |-> "full"]>>>>

====
